---- MODULE Spec2Model ----
(***************************************************************************)
(* nw: an NNTP client that selects a group, walks its article range in     *)
(* XOVER batches, filters the listed articles by date, fetches the         *)
(* survivors with ARTICLE and keeps a per-group bookmark (nw.go).          *)
(*                                                                         *)
(* Text is modelled as sequences of one-character strings, so that the     *)
(* comparisons the code makes on lines (HasPrefix, ==, Split) are made on  *)
(* the characters.  A date text is abbreviated to the decimal day number   *)
(* of its instant: time.Parse succeeds on digit strings only.              *)
(***************************************************************************)
EXTENDS Integers, Sequences, FiniteSets, TLC

\* ---------------------------------------------------------------- bounds
MaxArt == 3          \* article numbers the server uses are 1..MaxArt
MaxBatch == 2        \* -batch is drawn from 1..MaxBatch
MaxDays == 1         \* -days is 0 (no filter) or MaxDays
MaxRuns == 2         \* invocations of the program, one after the other (SpecRuns)
MaxBody == 1         \* body lines the server sends for one article (Spec)
MaxStream == 4       \* lines of an article body stream (SpecFetch)
MaxListing == 3      \* lines of a listing stream (SpecList)

\* ------------------------------------------------------------------ text
CR == "\r"
LF == "\n"
TAB == "\t"
SP == " "
DOT == "."
CRLF == <<CR, LF>>
Digits == <<"0", "1", "2", "3", "4", "5", "6", "7", "8", "9">>
Group == "g"

\* A read that returned an error instead of a line (err != nil).
ReadErr == <<"<err>">>

\* strings.HasPrefix
HasPrefix(s, p) ==
  /\ Len(s) >= Len(p)
  /\ SubSeq(s, 1, Len(p)) = p

IsSpace(c) == c \in {SP, TAB, CR, LF}

\* strings.TrimSpace
RECURSIVE TrimLeft(_)
TrimLeft(s) ==
  IF s # <<>> /\ IsSpace(Head(s)) THEN TrimLeft(Tail(s)) ELSE s

RECURSIVE TrimRight(_)
TrimRight(s) ==
  IF s # <<>> /\ IsSpace(s[Len(s)]) THEN TrimRight(SubSeq(s, 1, Len(s) - 1)) ELSE s

TrimSpace(s) == TrimRight(TrimLeft(s))

\* strings.Split(s, sep) for a one-character sep: the fields between the
\* separators, empty fields kept.
RECURSIVE SplitAcc(_, _, _)
SplitAcc(s, sep, cur) ==
  IF s = <<>> THEN <<cur>>
  ELSE IF Head(s) = sep THEN <<cur>> \o SplitAcc(Tail(s), sep, <<>>)
  ELSE SplitAcc(Tail(s), sep, Append(cur, Head(s)))

Split(s, sep) == SplitAcc(s, sep, <<>>)

\* strings.Fields: the maximal runs of non-space characters.
RECURSIVE FieldsAcc(_, _)
FieldsAcc(s, cur) ==
  IF s = <<>> THEN (IF cur = <<>> THEN <<>> ELSE <<cur>>)
  ELSE IF IsSpace(Head(s))
       THEN (IF cur = <<>> THEN <<>> ELSE <<cur>>) \o FieldsAcc(Tail(s), <<>>)
       ELSE FieldsAcc(Tail(s), Append(cur, Head(s)))

Fields(s) == FieldsAcc(s, <<>>)

\* strings.Index(s, " ("): the index (from 0) of the first occurrence, -1
\* when there is none.
RECURSIVE IndexParenFrom(_, _)
IndexParenFrom(s, i) ==
  IF i + 1 > Len(s) THEN -1
  ELSE IF s[i] = SP /\ s[i + 1] = "(" THEN i - 1
  ELSE IndexParenFrom(s, i + 1)

IndexParen(s) == IndexParenFrom(s, 1)

DigitVal(c) == CHOOSE d \in 0..9 : Digits[d + 1] = c

IsDigit(c) == \E d \in 1..10 : Digits[d] = c

AllDigits(s) == s # <<>> /\ \A i \in 1..Len(s) : IsDigit(s[i])

RECURSIVE DigitsVal(_, _)
DigitsVal(s, acc) ==
  IF s = <<>> THEN acc ELSE DigitsVal(Tail(s), 10 * acc + DigitVal(Head(s)))

\* strconv.Atoi on an unsigned decimal: ok is err == nil.
Atoi(s) ==
  IF AllDigits(s) THEN [ok |-> TRUE, val |-> DigitsVal(s, 0)]
  ELSE [ok |-> FALSE, val |-> 0]

\* fmt's %d of a natural number.
RECURSIVE Itoa(_)
Itoa(n) ==
  IF n < 10 THEN <<Digits[n + 1]>> ELSE Append(Itoa(n \div 10), Digits[(n % 10) + 1])

\* ------------------------------------------------- the code's decisions
\* parseDate: trim, cut a trailing " (zone)" comment, time.Parse.
parseDate(dateStr) ==
  LET t == TrimSpace(dateStr)
      idx == IndexParen(t)
      u == IF idx > 0 THEN SubSeq(t, 1, idx) ELSE t
  IN Atoi(u)

\* The GROUP response: "211 " prefix, at least 4 fields, Atoi of fields 3, 4.
ParseGroup(response) ==
  LET parts == Fields(response) IN
  IF ~HasPrefix(response, <<"2", "1", "1", SP>>) THEN [ok |-> FALSE, first |-> 0, last |-> 0]
  ELSE IF Len(parts) < 4 THEN [ok |-> FALSE, first |-> 0, last |-> 0]
  ELSE IF ~Atoi(parts[3]).ok \/ ~Atoi(parts[4]).ok THEN [ok |-> FALSE, first |-> 0, last |-> 0]
  ELSE [ok |-> TRUE, first |-> Atoi(parts[3]).val, last |-> Atoi(parts[4]).val]

\* The bookmark table: a map from group name to GroupState.
NoState == [g \in {} |-> [LastArticle |-> 0, LastFetch |-> 0]]

Exists(st) == Group \in DOMAIN st

GroupState(n, t) == [g \in {Group} |-> [LastArticle |-> n, LastFetch |-> t]]

\* Mutant: the early return is left out.
NoNewArticlesNever(latest, st, lst) == FALSE

\* Mutant: the comparison made strict.
NoNewArticlesStrict(latest, st, lst) ==
  /\ latest
  /\ Exists(st)
  /\ st[Group].LastArticle > lst

\* "No new articles": resume mode, a saved record, LastArticle >= last.
NoNewArticles(latest, st, lst) ==
  /\ latest
  /\ Exists(st)
  /\ st[Group].LastArticle >= lst

\* Mutant: the saved article itself is taken as the start.
ResumeFirstOffByOne(latest, st, fst, lst) ==
  IF latest /\ Exists(st) /\ st[Group].LastArticle >= fst /\ st[Group].LastArticle < lst
  THEN st[Group].LastArticle
  ELSE fst

\* The start of the range after the resume adjustment.
ResumeFirst(latest, st, fst, lst) ==
  IF latest /\ Exists(st) /\ st[Group].LastArticle >= fst /\ st[Group].LastArticle < lst
  THEN st[Group].LastArticle + 1
  ELSE fst

\* Mutant: the cap at last is left out.
BatchEndUncapped(bs, size, lst) == bs + size - 1

\* batchEnd := batchStart + maxBatchSize - 1, capped at last.
BatchEndOf(bs, size, lst) ==
  IF bs + size - 1 > lst THEN lst ELSE bs + size - 1

\* Mutant: resume mode alone decides.
UpdatesBookmarkAlways(latest, be, fst) == latest

\* Mutant: the comparison made weak.
UpdatesBookmarkAtOrPast(latest, be, fst) == latest /\ be >= fst

\* The bookmark is updated after a batch when useLatest && batchEnd > first.
UpdatesBookmark(latest, be, fst) == latest /\ be > fst

\* Mutant: any response to AUTHINFO USER is taken for a 381.
AuthUserOKAny(response) == TRUE

\* authenticateNNTP: the prefixes it asks for, without a space after them.
AuthUserOK(response) == HasPrefix(response, <<"3", "8", "1">>)

AuthPassOK(response) == HasPrefix(response, <<"2", "8", "1">>)

XoverOK(header) == HasPrefix(header, <<"2", "2", "4", SP>>)

\* Mutant: any status line is taken for a 220.
ArticleOKAny(response) == TRUE

ArticleOK(response) == HasPrefix(response, <<"2", "2", "0", SP>>)

\* The line that ends a multi-line response: line == ".\r\n".
IsTerminator(l) == l = <<DOT>> \o CRLF

\* Mutant: 7 fields are taken for enough.
CandidateSevenFields(l, d, cutoff) ==
  LET fields == Split(l, TAB) IN
  IF Len(fields) < 7 THEN <<>>
  ELSE IF d > 0 /\ (~parseDate(fields[4]).ok \/ parseDate(fields[4]).val < cutoff) THEN <<>>
  ELSE <<fields[1]>>

\* One listing line: the article number it adds to articleNumbers, if any.
Candidate(l, d, cutoff) ==
  LET fields == Split(l, TAB) IN
  IF Len(fields) < 8 THEN <<>>
  ELSE IF d > 0 /\ (~parseDate(fields[4]).ok \/ parseDate(fields[4]).val < cutoff) THEN <<>>
  ELSE <<fields[1]>>

\* Mutant: every leading dot is stripped.
UnstuffAnyDot(l) == IF HasPrefix(l, <<DOT>>) THEN Tail(l) ELSE l

\* One body line as written to the article: a leading ".." loses one dot.
Unstuff(l) == IF HasPrefix(l, <<DOT, DOT>>) THEN Tail(l) ELSE l

\* Lines 185-204, one turn of the listing loop on the line read: err is the
\* fatal return, done the break at the terminator.
ListStep(nums, l, d, cutoff) ==
  IF l = ReadErr THEN [st |-> "err", nums |-> nums]
  ELSE IF IsTerminator(l) THEN [st |-> "done", nums |-> nums]
  ELSE [st |-> "more", nums |-> nums \o Candidate(l, d, cutoff)]

\* Lines 238-247, fetchArticle on the status line read.
StatusStep(l) ==
  IF l = ReadErr \/ ~ArticleOK(l) THEN [st |-> "err", article |-> <<>>]
  ELSE [st |-> "more", article |-> l]

\* Lines 250-264, one turn of fetchArticle's loop on the line read; at the
\* terminator the synthetic ".\r\n" is appended.
BodyStep(art, l) ==
  IF l = ReadErr THEN [st |-> "err", article |-> <<>>]
  ELSE IF IsTerminator(l) THEN [st |-> "done", article |-> art \o <<DOT, CR, LF>>]
  ELSE [st |-> "more", article |-> art \o Unstuff(l)]

\* ------------------------------------------------------ what a server sends
GroupLine(f, l) ==
  <<"2", "1", "1", SP>> \o Itoa(IF l >= f THEN l - f + 1 ELSE 0) \o <<SP>>
    \o Itoa(f) \o <<SP>> \o Itoa(l) \o <<SP, Group>> \o CRLF

NoSuchGroup == <<"4", "1", "1", SP, "n", "o">> \o CRLF
ShortGroup == <<"2", "1", "1", SP, "0">> \o CRLF
BadGroup == <<"2", "1", "1", SP, "0", SP, "x", SP, "1", SP, Group>> \o CRLF

PassRequired == <<"3", "8", "1", SP, "p">> \o CRLF
AuthAccepted == <<"2", "8", "1", SP, "o", "k">> \o CRLF
AuthRejected == <<"4", "8", "1", SP, "n", "o">> \o CRLF

XoverHeader == <<"2", "2", "4", SP, "o", "k">> \o CRLF
XoverRefused == <<"4", "2", "0", SP, "n", "o">> \o CRLF

\* A full overview line: number, subject, from, date, id, refs, bytes, lines.
OverLine(n, date) ==
  Itoa(n) \o <<TAB, "s", TAB, "f", TAB>> \o date \o <<TAB, "m", TAB, "r", TAB, "b", TAB, "l">> \o CRLF

\* An overview line cut short: 7 fields.
ShortLine(n) ==
  Itoa(n) \o <<TAB, "s", TAB, "f", TAB, "0", TAB, "m", TAB, "r", TAB, "b">> \o CRLF

Zone == <<SP, "(", "U", "T", "C", ")">>

\* The date texts a listing carries, around the cutoff c.
DateTexts(c) == {Itoa(c - 1), Itoa(c) \o Zone}

Terminator == <<DOT>> \o CRLF
BareTerminator == <<DOT, LF>>

ArticleHeader(num) == <<"2", "2", "0", SP>> \o num \o CRLF
ArticleMissing == <<"4", "3", "0", SP, "n", "o">> \o CRLF

Hello == <<"H", "e", "l", "l", "o">> \o CRLF
Escaped == <<DOT, DOT, "e", "s", "c", "a", "p", "e", "d">> \o CRLF
World == <<"W", "o", "r", "l", "d">> \o CRLF
OneDot == <<DOT, "x">> \o CRLF
StuffedDot == <<DOT, DOT>> \o CRLF

\* ----------------------------------------------------------------- state
VARIABLES
  pc,              \* where the process is: idle, greeting, auth_user, auth_pass,
                   \* group, xover_hdr, xover_list, art_status, art_body, exited
  run,             \* invocations started so far
  now,             \* time.Now(), in days
  useLatest, days, maxBatchSize,       \* -latest, -days, -batch
  disk,            \* the bookmark file <group>.json
  state,           \* var state: the in-memory bookmark table
  first, last,     \* the range of the group; first after the resume adjustment
  batchStart, batchEnd,
  articleNumbers,  \* the candidates of the batch
  idx,             \* the position of the range loop over articleNumbers
  article,         \* fetchArticle's strings.Builder
  articles,        \* the articles fetched so far
  broken,          \* a read has failed: the deadline has passed or the stream is gone
  result,          \* none, ok (exit 0), noresults, fatal (exit 1)
  stdout,          \* what main printed
  sent,            \* the commands written to the connection in this run
  cursor,          \* the server's position in the listing it is sending
  nbody,           \* body lines the server has sent for the article
  username,        \* -user was given
  authRead,        \* what authenticateNNTP read, in order
  first0,          \* the first the GROUP response carried
  saved0,          \* the bookmark table as loaded at the start of the run
  hist,            \* what earlier runs did
  stream,          \* SpecFetch, SpecList: the lines still to be read
  consumed         \* SpecFetch, SpecList: the lines read so far

vars ==
  <<pc, run, now, useLatest, days, maxBatchSize, disk, state, first, last, batchStart, batchEnd,
    articleNumbers, idx, article, articles, broken, result, stdout, sent, cursor, nbody,
    username, authRead, first0, saved0, hist, stream, consumed>>

\* The commands, as written to the connection.
AuthUserCmd == [cmd |-> "AUTHINFO USER", lo |-> 0, hi |-> 0, num |-> <<>>]
AuthPassCmd == [cmd |-> "AUTHINFO PASS", lo |-> 0, hi |-> 0, num |-> <<>>]
GroupCmd == [cmd |-> "GROUP", lo |-> 0, hi |-> 0, num |-> <<>>]
XoverCmd(lo, hi) == [cmd |-> "XOVER", lo |-> lo, hi |-> hi, num |-> <<>>]
ArticleCmd(num) == [cmd |-> "ARTICLE", lo |-> 0, hi |-> 0, num |-> num]
QuitCmd == [cmd |-> "QUIT", lo |-> 0, hi |-> 0, num |-> <<>>]

\* The part of the state the control flow of getRecentArticles and main
\* changes, as one record.
Cur ==
  [pc |-> pc, state |-> state, disk |-> disk, first |-> first, last |-> last,
   batchStart |-> batchStart, batchEnd |-> batchEnd, articleNumbers |-> articleNumbers,
   idx |-> idx, article |-> article, articles |-> articles, result |-> result,
   stdout |-> stdout, sent |-> sent, saveFailed |-> FALSE]

\* Mutant: the articles fetched before the error are printed.
FatalPrints(c) == [c EXCEPT !.pc = "exited", !.result = "fatal", !.stdout = c.articles]

\* A fatal error: getRecentArticles returns (nil, err) and main exits 1
\* without printing; the articles fetched so far are dropped with the frame.
Fatal(c) == [c EXCEPT !.pc = "exited", !.result = "fatal"]

\* Mutant: an empty list is returned as a success.
FinishAlwaysOk(c) ==
  [c EXCEPT !.pc = "exited", !.result = "ok", !.stdout = c.articles,
            !.sent = Append(@, QuitCmd)]

\* Lines 229-233 and 311-321: no article is an error; otherwise main prints
\* the articles and sends QUIT.
Finish(c) ==
  IF Len(c.articles) = 0
  THEN [c EXCEPT !.pc = "exited", !.result = "noresults"]
  ELSE [c EXCEPT !.pc = "exited", !.result = "ok", !.stdout = c.articles,
                 !.sent = Append(@, QuitCmd)]

\* Mutant: the loop tests its condition after the first turn only.
LoopDoWhile(c) ==
  IF c.batchStart <= c.last \/ Len(c.sent) = 1
  THEN LET be == BatchEndOf(c.batchStart, maxBatchSize, c.last) IN
       [c EXCEPT !.batchEnd = be, !.sent = Append(@, XoverCmd(c.batchStart, be)),
                 !.pc = "xover_hdr"]
  ELSE Finish(c)

\* The head of the batch loop: the next XOVER, or the end of the loop.
Loop(c) ==
  IF c.batchStart <= c.last
  THEN LET be == BatchEndOf(c.batchStart, maxBatchSize, c.last) IN
       [c EXCEPT !.batchEnd = be, !.sent = Append(@, XoverCmd(c.batchStart, be)),
                 !.pc = "xover_hdr"]
  ELSE Finish(c)

\* Mutant: a failed saveState is returned as a fatal error.
EndBatchAborts(c, saveOk) ==
  LET upd == UpdatesBookmark(useLatest, c.batchEnd, c.first)
      st == IF upd THEN GroupState(c.batchEnd, now) ELSE c.state
      dk == IF upd /\ saveOk THEN st ELSE c.disk
      d == [c EXCEPT !.state = st, !.disk = dk, !.batchStart = c.batchEnd + 1,
                     !.saveFailed = upd /\ ~saveOk]
  IN IF upd /\ ~saveOk THEN Fatal(d) ELSE Loop(d)

\* Mutant: the next batch starts at batchEnd.
EndBatchRepeats(c, saveOk) ==
  LET upd == UpdatesBookmark(useLatest, c.batchEnd, c.first)
      st == IF upd THEN GroupState(c.batchEnd, now) ELSE c.state
      dk == IF upd /\ saveOk THEN st ELSE c.disk
  IN Loop([c EXCEPT !.state = st, !.disk = dk, !.batchStart = c.batchEnd,
                    !.saveFailed = upd /\ ~saveOk])

\* The end of a batch: the bookmark update, saveState, batchStart = batchEnd + 1.
EndBatch(c, saveOk) ==
  LET upd == UpdatesBookmark(useLatest, c.batchEnd, c.first)
      st == IF upd THEN GroupState(c.batchEnd, now) ELSE c.state
      dk == IF upd /\ saveOk THEN st ELSE c.disk
  IN Loop([c EXCEPT !.state = st, !.disk = dk, !.batchStart = c.batchEnd + 1,
                    !.saveFailed = upd /\ ~saveOk])

\* Mutant: the range loop stops after the first candidate.
FetchLoopFirstOnly(c, i, saveOk) ==
  IF i <= Len(c.articleNumbers) /\ i = 1
  THEN [c EXCEPT !.idx = i, !.pc = "art_status",
                 !.sent = Append(@, ArticleCmd(c.articleNumbers[i]))]
  ELSE EndBatch(c, saveOk)

\* The range loop over articleNumbers, at position i.
FetchLoop(c, i, saveOk) ==
  IF i <= Len(c.articleNumbers)
  THEN [c EXCEPT !.idx = i, !.pc = "art_status",
                 !.sent = Append(@, ArticleCmd(c.articleNumbers[i]))]
  ELSE EndBatch(c, saveOk)

\* After the GROUP response: the resume adjustment, then the batch loop.
AfterGroup(c, response) ==
  LET g == ParseGroup(response) IN
  IF ~g.ok THEN Fatal(c)
  ELSE IF NoNewArticles(useLatest, c.state, g.last)
  THEN [c EXCEPT !.pc = "exited", !.result = "ok", !.first = g.first, !.last = g.last,
                 !.sent = Append(@, QuitCmd)]
  ELSE LET f == ResumeFirst(useLatest, c.state, g.first, g.last) IN
       Loop([c EXCEPT !.first = f, !.last = g.last, !.batchStart = f])

\* What earlier runs did, kept only while every run so far was a resume-mode
\* run that loaded and saved its bookmark, met no read error, did not fail
\* and saw a range that did not shrink: fetched are the numbers ARTICLE was
\* sent for in earlier runs, range the previous GROUP range.
Dirty == [clean |-> FALSE, fetched |-> {}, range |-> <<0, 0>>]

ArticleNumsOf(cmds) ==
  {Atoi(cmds[i].num).val : i \in {j \in 1..Len(cmds) : cmds[j].cmd = "ARTICLE"}}

HistAfter(h, r, l) ==
  IF r.result \in {"fatal", "noresults"} \/ r.saveFailed \/ l = ReadErr THEN Dirty ELSE h

HistRange(h, response) ==
  LET g == ParseGroup(response) IN
  IF ~h.clean \/ ~g.ok THEN h
  ELSE IF h.range # <<0, 0>> /\ (g.first < h.range[1] \/ g.last < h.range[2]) THEN Dirty
  ELSE [h EXCEPT !.range = <<g.first, g.last>>]

\* A read returns a line the server sent, or an error; once a read has
\* failed (the deadline set once in main has passed, or the stream has
\* ended), every later read fails.
Incoming(lines) == IF broken THEN {ReadErr} ELSE lines \cup {ReadErr}

Apply(r, l, h) ==
  /\ pc' = r.pc
  /\ state' = r.state
  /\ disk' = r.disk
  /\ first' = r.first
  /\ last' = r.last
  /\ batchStart' = r.batchStart
  /\ batchEnd' = r.batchEnd
  /\ articleNumbers' = r.articleNumbers
  /\ idx' = r.idx
  /\ article' = r.article
  /\ articles' = r.articles
  /\ result' = r.result
  /\ stdout' = r.stdout
  /\ sent' = r.sent
  /\ broken' = (broken \/ l = ReadErr)
  /\ hist' = HistAfter(h, r, l)

Fresh ==
  [pc |-> "idle", state |-> NoState, disk |-> NoState, first |-> 0, last |-> 0,
   batchStart |-> 0, batchEnd |-> 0, articleNumbers |-> <<>>, idx |-> 0, article |-> <<>>,
   articles |-> <<>>, result |-> "none", stdout |-> <<>>, sent |-> <<>>, saveFailed |-> FALSE]

\* The bookmark file an invocation finds: none, or the record an earlier
\* invocation left.
SavedFiles == {NoState} \cup {GroupState(n, MaxDays) : n \in 1..MaxArt}

Init ==
  /\ pc = "idle"
  /\ run = 0
  /\ now = MaxDays + 1
  /\ useLatest = FALSE
  /\ days = 0
  /\ maxBatchSize = 1
  /\ disk \in SavedFiles
  /\ state = NoState
  /\ first = 0
  /\ last = 0
  /\ batchStart = 0
  /\ batchEnd = 0
  /\ articleNumbers = <<>>
  /\ idx = 0
  /\ article = <<>>
  /\ articles = <<>>
  /\ broken = FALSE
  /\ result = "none"
  /\ stdout = <<>>
  /\ sent = <<>>
  /\ cursor = 0
  /\ nbody = 0
  /\ username = FALSE
  /\ authRead = <<>>
  /\ first0 = 0
  /\ saved0 = NoState
  /\ hist = [clean |-> TRUE, fetched |-> {}, range |-> <<0, 0>>]
  /\ stream = <<>>
  /\ consumed = <<>>

\* main, lines 270-296: the flags, loadState, dialNNTP, SetReadDeadline.
Launch ==
  /\ \E latest \in BOOLEAN, d \in {0, MaxDays}, b \in 1..MaxBatch,
        loadOk \in (IF Exists(disk) THEN BOOLEAN ELSE {TRUE}), dialOk \in BOOLEAN :
       LET st == IF loadOk THEN disk ELSE NoState
           c == [Fresh EXCEPT !.state = st, !.disk = disk,
                              !.pc = IF dialOk THEN "greeting" ELSE "exited",
                              !.result = IF dialOk THEN "none" ELSE "fatal"]
           h == IF hist.clean /\ latest /\ loadOk
                THEN [hist EXCEPT !.fetched = @ \cup ArticleNumsOf(sent)]
                ELSE Dirty
       IN /\ useLatest' = latest
          /\ days' = d
          /\ maxBatchSize' = b
          /\ saved0' = st
          /\ pc' = c.pc
          /\ state' = c.state
          /\ disk' = c.disk
          /\ first' = c.first
          /\ last' = c.last
          /\ batchStart' = c.batchStart
          /\ batchEnd' = c.batchEnd
          /\ articleNumbers' = c.articleNumbers
          /\ idx' = c.idx
          /\ article' = c.article
          /\ articles' = c.articles
          /\ result' = c.result
          /\ stdout' = c.stdout
          /\ sent' = c.sent
          /\ broken' = FALSE
          /\ hist' = HistAfter(h, c, <<>>)
  /\ run' = run + 1
  /\ now' = now + 1
  /\ cursor' = 0
  /\ nbody' = 0
  /\ first0' = 0
  /\ authRead' = <<>>
  /\ UNCHANGED <<stream, consumed>>

\* The program is started without -user.
StartRun ==
  /\ pc = "idle"
  /\ Launch
  /\ username' = FALSE

\* The program is started with -user and -pass.
StartRunAuth ==
  /\ pc = "idle"
  /\ Launch
  /\ username' = TRUE

\* The program is started again after it has exited.
Rerun ==
  /\ pc = "exited"
  /\ run < MaxRuns
  /\ Launch
  /\ username' = FALSE

Greeting == <<"2", "0", "0", SP, "h", "i">> \o CRLF

\* main, lines 298-311: the greeting; then authenticateNNTP sends AUTHINFO
\* USER when -user was given, and getRecentArticles sends GROUP otherwise.
ReadGreeting ==
  /\ pc = "greeting"
  /\ \E l \in Incoming({Greeting}) :
       LET r == IF l = ReadErr THEN Fatal(Cur)
                ELSE IF username
                THEN [Cur EXCEPT !.pc = "auth_user", !.sent = Append(@, AuthUserCmd)]
                ELSE [Cur EXCEPT !.pc = "group", !.sent = Append(@, GroupCmd)]
       IN Apply(r, l, hist)
  /\ UNCHANGED <<run, now, useLatest, days, maxBatchSize, cursor, nbody, first0, saved0,
                 username, authRead, stream, consumed>>

\* The responses of a server to AUTHINFO USER and AUTHINFO PASS.
AuthLines == {PassRequired, AuthAccepted, AuthRejected}

\* authenticateNNTP, lines 97-106: the response to AUTHINFO USER; a 381 is
\* answered with AUTHINFO PASS, anything else is the error main exits on.
ReadAuthUser ==
  /\ pc = "auth_user"
  /\ \E l \in Incoming(AuthLines) :
       LET r == IF l = ReadErr \/ ~AuthUserOK(l) THEN Fatal(Cur)
                ELSE [Cur EXCEPT !.pc = "auth_pass", !.sent = Append(@, AuthPassCmd)]
       IN /\ Apply(r, l, hist)
          /\ authRead' = Append(authRead, l)
  /\ UNCHANGED <<run, now, useLatest, days, maxBatchSize, cursor, nbody, first0, saved0,
                 username, stream, consumed>>

\* authenticateNNTP, lines 107-114, and line 311: the response to AUTHINFO
\* PASS; after a 281 getRecentArticles sends GROUP.
ReadAuthPass ==
  /\ pc = "auth_pass"
  /\ \E l \in Incoming(AuthLines) :
       LET r == IF l = ReadErr \/ ~AuthPassOK(l) THEN Fatal(Cur)
                ELSE [Cur EXCEPT !.pc = "group", !.sent = Append(@, GroupCmd)]
       IN /\ Apply(r, l, hist)
          /\ authRead' = Append(authRead, l)
  /\ UNCHANGED <<run, now, useLatest, days, maxBatchSize, cursor, nbody, first0, saved0,
                 username, stream, consumed>>

\* The GROUP responses of a server: a range first..last, empty when
\* last = first - 1, or a refusal or a malformed line.
GroupLines ==
  UNION {{GroupLine(f, l) : f \in 1..(l + 1)} : l \in 0..MaxArt}
    \cup {NoSuchGroup, ShortGroup, BadGroup}

\* Lines 129-166.
ReadGroup ==
  /\ pc = "group"
  /\ \E l \in Incoming(GroupLines), saveOk \in BOOLEAN :
       LET r == IF l = ReadErr THEN Fatal(Cur) ELSE AfterGroup(Cur, l)
       IN /\ Apply(r, l, IF l = ReadErr THEN hist ELSE HistRange(hist, l))
          /\ first0' = IF l # ReadErr /\ ParseGroup(l).ok THEN ParseGroup(l).first ELSE first0
  /\ UNCHANGED <<run, now, useLatest, days, maxBatchSize, cursor, nbody, saved0,
                 username, authRead, stream, consumed>>

\* Lines 175-183: the XOVER status line.
ReadXoverHeader ==
  /\ pc = "xover_hdr"
  /\ \E l \in Incoming({XoverHeader, XoverRefused}) :
       LET r == IF l = ReadErr \/ ~XoverOK(l) THEN Fatal(Cur)
                ELSE [Cur EXCEPT !.pc = "xover_list", !.articleNumbers = <<>>]
       IN Apply(r, l, hist)
  /\ cursor' = batchStart
  /\ UNCHANGED <<run, now, useLatest, days, maxBatchSize, nbody, first0, saved0,
                 username, authRead, stream, consumed>>

\* The lines of a listing: the articles of the batch in ascending order, each
\* with a full or a short overview line, then the terminator.
ListingLines ==
  {Terminator}
    \cup {OverLine(n, d) : n \in cursor..batchEnd, d \in DateTexts(now - days)}
    \cup {ShortLine(n) : n \in cursor..batchEnd}

NumberOf(l) == Atoi(Split(l, TAB)[1]).val

\* Lines 184-205, one line of the listing; at the terminator, the first
\* ARTICLE of the batch (or the end of the batch).
ReadXoverLine ==
  /\ pc = "xover_list"
  /\ \E l \in Incoming(ListingLines), saveOk \in BOOLEAN :
       LET t == ListStep(articleNumbers, l, days, now - days)
           r == IF t.st = "err" THEN Fatal(Cur)
                ELSE IF t.st = "done" THEN FetchLoop(Cur, 1, saveOk)
                ELSE [Cur EXCEPT !.articleNumbers = t.nums]
       IN /\ Apply(r, l, hist)
          /\ cursor' = IF t.st = "more" THEN NumberOf(l) + 1 ELSE cursor
  /\ UNCHANGED <<run, now, useLatest, days, maxBatchSize, nbody, first0, saved0,
                 username, authRead, stream, consumed>>

\* fetchArticle, lines 237-247: the ARTICLE status line.  An error or a
\* refusal is a warning in the caller, which goes on with the next number.
ReadArticleStatus ==
  /\ pc = "art_status"
  /\ \E l \in Incoming({ArticleHeader(articleNumbers[idx]), ArticleMissing}), saveOk \in BOOLEAN :
       LET t == StatusStep(l)
           r == IF t.st = "err" THEN FetchLoop(Cur, idx + 1, saveOk)
                ELSE [Cur EXCEPT !.pc = "art_body", !.article = t.article]
       IN Apply(r, l, hist)
  /\ nbody' = 0
  /\ UNCHANGED <<run, now, useLatest, days, maxBatchSize, cursor, first0, saved0,
                 username, authRead, stream, consumed>>

\* The body lines a server sends for an article.
BodyLines == {Terminator} \cup (IF nbody < MaxBody THEN {Escaped} ELSE {})

\* fetchArticle, lines 249-266, one line of the body.
ReadArticleLine ==
  /\ pc = "art_body"
  /\ \E l \in Incoming(BodyLines), saveOk \in BOOLEAN :
       LET t == BodyStep(article, l)
           r == IF t.st = "err" THEN FetchLoop([Cur EXCEPT !.article = <<>>], idx + 1, saveOk)
                ELSE IF t.st = "done"
                THEN FetchLoop([Cur EXCEPT !.articles = Append(@, t.article),
                                           !.article = <<>>], idx + 1, saveOk)
                ELSE [Cur EXCEPT !.article = t.article]
       IN /\ Apply(r, l, hist)
          /\ nbody' = IF t.st = "more" THEN nbody + 1 ELSE nbody
  /\ UNCHANGED <<run, now, useLatest, days, maxBatchSize, cursor, first0, saved0,
                 username, authRead, stream, consumed>>

Next ==
  \/ StartRun
  \/ ReadGreeting
  \/ ReadGroup
  \/ ReadXoverHeader
  \/ ReadXoverLine
  \/ ReadArticleStatus
  \/ ReadArticleLine

Spec == Init /\ [][Next]_vars

\* Every read returns in the end, with a line or, at the deadline of line
\* 294 at the latest, with an error: the step that is enabled is taken.
SpecLive == Spec /\ WF_vars(Next)

NextRuns == Next \/ Rerun

\* One invocation after the other, each finding the file the one before left.
SpecRuns == Init /\ [][NextRuns]_vars

NextAuth ==
  \/ StartRunAuth
  \/ ReadGreeting
  \/ ReadAuthUser
  \/ ReadAuthPass
  \/ ReadGroup
  \/ ReadXoverHeader
  \/ ReadXoverLine
  \/ ReadArticleStatus
  \/ ReadArticleLine

\* One invocation with -user: authenticateNNTP runs after the greeting.
SpecAuth == Init /\ [][NextAuth]_vars

\* ------------------------------------------- the readers on given streams
\* fetchArticle and the listing loop are functions of the lines the stream
\* delivers.  SpecFetch and SpecList start them on every stream of a bounded
\* length over the lines below; a read past the end of the stream waits for
\* the deadline and fails.
RECURSIVE SeqsUpTo(_, _)
SeqsUpTo(S, n) ==
  IF n = 0 THEN {<<>>}
  ELSE LET shorter == SeqsUpTo(S, n - 1) IN
       shorter \cup {Append(q, x) : q \in {p \in shorter : Len(p) = n - 1}, x \in S}

StreamBodyLines == {Hello, Escaped, World, OneDot, StuffedDot, Terminator, BareTerminator}

StreamDates(c) ==
  {Itoa(c - 1), Itoa(c), Itoa(c) \o Zone, <<SP>> \o Itoa(c - 1) \o Zone, <<"x">>,
   Itoa(c) \o <<"x">>}

StreamListLines(c) ==
  {OverLine(1, d) : d \in StreamDates(c)}
    \cup {OverLine(2, Itoa(c)), ShortLine(1), Terminator, BareTerminator}

StreamRead == IF stream = <<>> THEN ReadErr ELSE Head(stream)

InitRun(p, d, hi, strm) ==
  /\ pc = p
  /\ run = 1
  /\ now = MaxDays + 1
  /\ useLatest = FALSE
  /\ days = d
  /\ maxBatchSize = hi
  /\ disk = NoState
  /\ state = NoState
  /\ first = 1
  /\ last = hi
  /\ batchStart = 1
  /\ batchEnd = hi
  /\ idx = 0
  /\ articles = <<>>
  /\ broken = FALSE
  /\ result = "none"
  /\ stdout = <<>>
  /\ cursor = 1
  /\ nbody = 0
  /\ username = FALSE
  /\ authRead = <<>>
  /\ first0 = 1
  /\ saved0 = NoState
  /\ hist = Dirty
  /\ stream = strm
  /\ consumed = <<>>

\* ARTICLE 1 has been sent and answered "220 1": fetchArticle is at its loop.
InitFetch ==
  /\ \E strm \in SeqsUpTo(StreamBodyLines, MaxStream) : InitRun("art_body", 0, 1, strm)
  /\ articleNumbers = <<<<"1">>>>
  /\ article = ArticleHeader(<<"1">>)
  /\ sent = <<GroupCmd, XoverCmd(1, 1), ArticleCmd(<<"1">>)>>

\* fetchArticle's loop, one line; the caller appends the article returned.
FetchBodyStep ==
  /\ pc = "art_body"
  /\ LET l == StreamRead
         t == BodyStep(article, l)
     IN /\ broken' = (broken \/ l = ReadErr)
        /\ consumed' = IF l = ReadErr THEN consumed ELSE Append(consumed, l)
        /\ stream' = IF l = ReadErr THEN stream ELSE Tail(stream)
        /\ pc' = IF t.st = "more" THEN "art_body" ELSE "fetched"
        /\ article' = IF t.st = "more" THEN t.article ELSE <<>>
        /\ articles' = IF t.st = "done" THEN Append(articles, t.article) ELSE articles
  /\ UNCHANGED <<run, now, useLatest, days, maxBatchSize, disk, state, first, last, batchStart,
                 batchEnd, articleNumbers, idx, result, stdout, sent, cursor, nbody, first0,
                 saved0, hist, username, authRead>>

SpecFetch == InitFetch /\ [][FetchBodyStep]_vars

\* XOVER 1-2 has been sent and answered "224": the listing loop starts.
InitList ==
  /\ \E d \in {0, MaxDays} :
       \E strm \in SeqsUpTo(StreamListLines(MaxDays + 1 - d), MaxListing) :
         InitRun("xover_list", d, 2, strm)
  /\ articleNumbers = <<>>
  /\ article = <<>>
  /\ sent = <<GroupCmd, XoverCmd(1, 2)>>

\* The listing loop, one line.
ListLineStep ==
  /\ pc = "xover_list"
  /\ LET l == StreamRead
         t == ListStep(articleNumbers, l, days, now - days)
     IN /\ broken' = (broken \/ l = ReadErr)
        /\ consumed' = IF l = ReadErr THEN consumed ELSE Append(consumed, l)
        /\ stream' = IF l = ReadErr THEN stream ELSE Tail(stream)
        /\ pc' = IF t.st = "more" THEN "xover_list" ELSE IF t.st = "done" THEN "listed" ELSE "exited"
        /\ result' = IF t.st = "err" THEN "fatal" ELSE result
        /\ articleNumbers' = t.nums
  /\ UNCHANGED <<run, now, useLatest, days, maxBatchSize, disk, state, first, last, batchStart,
                 batchEnd, idx, article, articles, stdout, sent, cursor, nbody, first0,
                 saved0, hist, username, authRead>>

SpecList == InitList /\ [][ListLineStep]_vars

\* ------------------------------------------------------------- the claims
\* The XOVER ranges sent in this run, in order.
Xovers == SelectSeq(sent, LAMBDA c : c.cmd = "XOVER")

ArticleCmds == SelectSeq(sent, LAMBDA c : c.cmd = "ARTICLE")

\* The GROUP response of this run has been parsed.
GroupParsed == first0 # 0

\* Resume mode found a saved record at or past the server's last article.
SavedAtOrPastLast ==
  /\ GroupParsed
  /\ useLatest
  /\ Exists(saved0)
  /\ saved0[Group].LastArticle >= last

\* C1: the XOVER ranges of a run tile [first, last]: the first starts at
\* first (the start of the range after the resume adjustment), each next one
\* starts one past the end of the one before, each holds between 1 and
\* maxBatchSize numbers and ends at or before last; when the run has walked
\* the batch loop of a range with first <= last to its end without a fatal
\* error, the last one ends at last.
C1_BatchesTile ==
  /\ \A i \in 1..Len(Xovers) :
       /\ Xovers[i].lo = (IF i = 1 THEN first ELSE Xovers[i - 1].hi + 1)
       /\ Xovers[i].hi >= Xovers[i].lo
       /\ Xovers[i].hi - Xovers[i].lo + 1 <= maxBatchSize
       /\ Xovers[i].hi <= last
  /\ (pc = "exited" /\ GroupParsed /\ result # "fatal" /\ ~SavedAtOrPastLast /\ first <= last)
       => (Len(Xovers) >= 1 /\ Xovers[Len(Xovers)].hi = last)

C1_Witness ==
  /\ pc = "exited"
  /\ result = "ok"
  /\ maxBatchSize = 2
  /\ first = 1
  /\ last = 3
  /\ Len(Xovers) = 2
  /\ <<Xovers[1].lo, Xovers[1].hi>> = <<1, 2>>
  /\ <<Xovers[2].lo, Xovers[2].hi>> = <<3, 3>>

\* C2: the resume adjustment.  With a saved record L in resume mode: L >= last
\* ends the run with an empty success; first0 <= L < last makes first L + 1;
\* otherwise, and with resume mode off or no record, first is the server's.
\* Adjusting the adjusted first again changes nothing.
C2_ResumeAdjustment ==
  GroupParsed =>
    LET has == useLatest /\ Exists(saved0)
        L == saved0[Group].LastArticle
    IN IF has /\ L >= last
       THEN pc = "exited" /\ result = "ok" /\ Len(articles) = 0 /\ Len(stdout) = 0
       ELSE /\ first = (IF has /\ first0 <= L /\ L < last THEN L + 1 ELSE first0)
            /\ ResumeFirst(useLatest, saved0, first, last) = first

C2_Witness ==
  /\ GroupParsed
  /\ pc = "xover_hdr"
  /\ useLatest
  /\ Exists(saved0)
  /\ first0 <= saved0[Group].LastArticle
  /\ saved0[Group].LastArticle < last
  /\ first = saved0[Group].LastArticle + 1
  /\ first > first0

\* C3: in resume mode with a saved last_article >= the server's last, the run
\* is an empty success, sends neither XOVER nor ARTICLE and leaves the
\* bookmark, in memory and in the file, as it was loaded.
C3_NoNewArticles ==
  SavedAtOrPastLast =>
    /\ pc = "exited"
    /\ result = "ok"
    /\ Len(articles) = 0
    /\ Len(stdout) = 0
    /\ Len(Xovers) = 0
    /\ Len(ArticleCmds) = 0
    /\ state = saved0
    /\ disk = saved0

C3_Witness ==
  /\ SavedAtOrPastLast
  /\ saved0[Group].LastArticle = last
  /\ first0 < last
  /\ pc = "exited"

\* C4: within a run every write to state[group].LastArticle is >= the value
\* it replaces, and so is every write to the file the run loaded its record
\* from, whatever range the server reports.
C4_LastArticleMonotonic ==
  [][run' = run =>
       /\ (Exists(state) /\ Exists(state'))
            => state'[Group].LastArticle >= state[Group].LastArticle
       /\ (Exists(saved0) /\ Exists(disk) /\ Exists(disk'))
            => disk'[Group].LastArticle >= disk[Group].LastArticle]_vars

C4_Witness ==
  /\ Exists(saved0)
  /\ Exists(disk)
  /\ saved0[Group].LastArticle < first0
  /\ disk[Group].LastArticle > saved0[Group].LastArticle
  /\ disk = state

\* C5 as claimed: over resume-mode runs that loaded and saved the bookmark,
\* met no read error and ended in success, against a range that did not
\* shrink, no
\* XOVER range and no ARTICLE of a later run covers a number ARTICLE was sent
\* for in an earlier run.
C5_NoRefetch ==
  (pc = "exited" /\ hist.clean) =>
    /\ \A i \in 1..Len(Xovers) : hist.fetched \cap (Xovers[i].lo..Xovers[i].hi) = {}
    /\ \A i \in 1..Len(ArticleCmds) : Atoi(ArticleCmds[i].num).val \notin hist.fetched

\* The lines of a sequence of lines, one after the other.
RECURSIVE Concat(_)
Concat(ls) == IF ls = <<>> THEN <<>> ELSE Head(ls) \o Concat(Tail(ls))

\* A body line as it is to appear in the article: one dot less when it
\* begins with two.
Unstuffed(l) ==
  IF Len(l) >= 2 /\ l[1] = DOT /\ l[2] = DOT THEN SubSeq(l, 2, Len(l)) ELSE l

\* C6: the article fetchArticle returns is the status line, then every body
\* line in order, a line beginning ".." without its first dot and every other
\* line (a single leading dot included) as received, then one ".\r\n"; the
\* terminator received is the last line read and is not copied.
C6_DotUnstuffing ==
  /\ pc = "art_body" =>
       /\ article = ArticleHeader(<<"1">>) \o Concat([i \in 1..Len(consumed) |-> Unstuffed(consumed[i])])
       /\ \A i \in 1..Len(consumed) : consumed[i] # <<DOT, CR, LF>>
  /\ (pc = "fetched" /\ Len(articles) = 1) =>
       /\ consumed[Len(consumed)] = <<DOT, CR, LF>>
       /\ \A i \in 1..(Len(consumed) - 1) : consumed[i] # <<DOT, CR, LF>>
       /\ articles[1] =
            ArticleHeader(<<"1">>)
              \o Concat([i \in 1..(Len(consumed) - 1) |-> Unstuffed(consumed[i])])
              \o <<DOT, CR, LF>>
  /\ (pc = "fetched" /\ consumed = <<Hello, Escaped, World, Terminator>>) =>
       articles = <<ArticleHeader(<<"1">>)
                      \o <<"H", "e", "l", "l", "o", CR, LF>>
                      \o <<DOT, "e", "s", "c", "a", "p", "e", "d", CR, LF>>
                      \o <<"W", "o", "r", "l", "d", CR, LF>>
                      \o <<DOT, CR, LF>>>>

C6_Witness ==
  /\ pc = "fetched"
  /\ consumed = <<Hello, Escaped, World, Terminator>>
  /\ Len(articles) = 1

\* C7 as claimed: a line that is exactly "." ends the body whether it ends in
\* CRLF or in a bare LF: it is the last line read, the read has stopped, and
\* the article is returned.
C7_BareLFTerminates ==
  \A i \in 1..Len(consumed) :
    consumed[i] \in {<<DOT, CR, LF>>, <<DOT, LF>>} =>
      /\ i = Len(consumed)
      /\ pc = "fetched"
      /\ Len(articles) = 1

\* C8: a run that walked its batches without a fatal error and fetched no
\* article ends with the "no matching articles" error; a success with nothing
\* to print is the resume-mode "no new articles" return only.
C8_NoResults ==
  /\ (pc = "exited" /\ GroupParsed /\ result # "fatal" /\ ~SavedAtOrPastLast /\ Len(articles) = 0)
       => result = "noresults"
  /\ (pc = "exited" /\ result = "ok" /\ Len(stdout) = 0) => SavedAtOrPastLast
  /\ result = "noresults" => (pc = "exited" /\ Len(articles) = 0 /\ Len(stdout) = 0)

C8_Witness ==
  /\ pc = "exited"
  /\ result = "noresults"
  /\ ~broken
  /\ Len(Xovers) = 2
  /\ Len(ArticleCmds) >= 1

\* The article number a listed line is to add: the number of a full overview
\* line whose date, when days > 0, is on or after the cutoff c.
Listed(l, d, c) ==
  IF \E n \in 1..2 :
       \/ l = OverLine(n, Itoa(c))
       \/ l = OverLine(n, Itoa(c) \o Zone)
       \/ d = 0 /\ \E dt \in StreamDates(c) : l = OverLine(n, dt)
  THEN <<SubSeq(l, 1, 1)>>
  ELSE <<>>

\* C9: the candidates are, in listing order, the numbers of the lines read
\* that have at least 8 fields and, when days > 0, a date that parses and is
\* not before the cutoff; any other line is only left out: the listing fails
\* on a read error alone.
C9_Candidates ==
  /\ articleNumbers = Concat([i \in 1..Len(consumed) |-> Listed(consumed[i], days, now - days)])
  /\ pc = "exited" => (result = "fatal" /\ broken /\ stream = <<>>)
  /\ pc = "listed" => (consumed[Len(consumed)] = <<DOT, CR, LF>> /\ result = "none")

C9_Witness ==
  /\ pc = "listed"
  /\ days = 1
  /\ consumed = <<OverLine(1, Itoa(now - days - 1)), OverLine(2, Itoa(now - days)), Terminator>>
  /\ articleNumbers = <<<<"2">>>>

\* C10 as claimed: a run in which a read failed ends in failure and prints
\* no article.
C10_ReadErrorIsFatal ==
  (pc = "exited" /\ broken) => (result \in {"fatal", "noresults"} /\ Len(stdout) = 0)

\* The number in the status line an article text begins with.
RECURSIVE UpToCR(_)
UpToCR(s) == IF s = <<>> \/ Head(s) = CR THEN <<>> ELSE <<Head(s)>> \o UpToCR(Tail(s))

NumOfArticle(a) == UpToCR(SubSeq(a, 5, Len(a)))

\* s is t with some elements left out.
RECURSIVE IsSubseq(_, _)
IsSubseq(s, t) ==
  IF s = <<>> THEN TRUE
  ELSE IF t = <<>> THEN FALSE
  ELSE IF Head(s) = Head(t) THEN IsSubseq(Tail(s), Tail(t))
  ELSE IsSubseq(s, Tail(t))

\* An ARTICLE exchange ends in this step without an article and without a
\* read error: the status line was not a 220.
Refused == pc = "art_status" /\ pc' # "art_body" /\ ~broken'

\* C11: a status line other than 220 in answer to ARTICLE is not fatal: no
\* body is read, the list of articles is left as it was, and the next command
\* is ARTICLE for the next candidate of the batch, else XOVER for the next
\* batch, else the run ends without a fatal error.  Every article kept begins
\* with a 220 status line, the articles are, in order, for numbers ARTICLE was
\* sent for, and a run that succeeds prints exactly the articles kept.
C11_RefusedArticleSkipped ==
  [][/\ Refused =>
          /\ articles' = articles
          /\ result' # "fatal"
          /\ IF idx < Len(articleNumbers)
             THEN /\ pc' = "art_status"
                  /\ idx' = idx + 1
                  /\ sent' = Append(sent, ArticleCmd(articleNumbers[idx + 1]))
             ELSE IF batchEnd < last
             THEN /\ pc' = "xover_hdr"
                  /\ sent' = Append(sent, XoverCmd(batchEnd + 1, BatchEndOf(batchEnd + 1, maxBatchSize, last)))
             ELSE /\ pc' = "exited"
                  /\ result' = (IF Len(articles) = 0 THEN "noresults" ELSE "ok")
     /\ \A i \in 1..Len(articles') : HasPrefix(articles'[i], <<"2", "2", "0", SP>>)
     /\ IsSubseq([i \in 1..Len(articles') |-> NumOfArticle(articles'[i])],
                 [i \in 1..Len(ArticleCmds') |-> ArticleCmds'[i].num])
     /\ (pc' = "exited" /\ result' = "ok") => stdout' = articles']_vars

C11_Witness ==
  /\ pc = "exited"
  /\ result = "ok"
  /\ ~broken
  /\ Len(Xovers) = 2
  /\ [i \in 1..Len(ArticleCmds) |-> ArticleCmds[i].num] = <<<<"1">>, <<"2">>, <<"3">>>>
  /\ [i \in 1..Len(articles) |-> NumOfArticle(articles[i])] = <<<<"1">>, <<"3">>>>
  /\ stdout = articles

\* C12: a run that ends in a fatal error prints nothing, whatever it had
\* fetched in earlier batches; what a run prints it prints after ending in
\* success, and it is the articles fetched, in the order ARTICLE was sent.
C12_FatalPrintsNothing ==
  /\ result = "fatal" => (pc = "exited" /\ Len(stdout) = 0)
  /\ Len(stdout) > 0 =>
       /\ pc = "exited"
       /\ result = "ok"
       /\ stdout = articles
       /\ IsSubseq([i \in 1..Len(stdout) |-> NumOfArticle(stdout[i])],
                   [i \in 1..Len(ArticleCmds) |-> ArticleCmds[i].num])

C12_Witness ==
  /\ pc = "exited"
  /\ result = "fatal"
  /\ ~broken
  /\ Len(Xovers) = 2
  /\ Len(articles) >= 1
  /\ Len(stdout) = 0

\* A batch ends in this step with the bookmark set in memory and the file
\* not written: saveState failed.
SaveFails ==
  /\ pc \in {"xover_list", "art_status", "art_body"}
  /\ batchStart' = batchEnd + 1
  /\ state' # state
  /\ disk' # state'

\* C13: a failure of saveState after a batch changes nothing but the file:
\* the step ends as the same step with a successful save does, that is, the
\* articles fetched so far are kept, the next XOVER is sent when a batch is
\* left, and otherwise the run ends with ok or noresults as the articles
\* decide.
C13_SaveFailureNotFatal ==
  [][SaveFails =>
       LET c0 == [Cur EXCEPT !.articles = articles', !.article = article']
           good == EndBatch(c0, TRUE)
       IN /\ Cur' = [good EXCEPT !.disk = disk', !.saveFailed = FALSE]
          /\ good.disk = state'
          /\ result' # "fatal"
          /\ articles' \in {articles} \cup {Append(articles, a) : a \in {article \o <<DOT, CR, LF>>}}
          /\ IF batchEnd < last
             THEN /\ pc' = "xover_hdr"
                  /\ sent' = Append(sent, XoverCmd(batchEnd + 1, BatchEndOf(batchEnd + 1, maxBatchSize, last)))
             ELSE /\ pc' = "exited"
                  /\ result' = (IF Len(articles') = 0 THEN "noresults" ELSE "ok")
                  /\ stdout' = articles']_vars

C13_Witness ==
  /\ pc = "xover_hdr"
  /\ ~broken
  /\ useLatest
  /\ Exists(state)
  /\ state[Group].LastArticle = batchStart - 1
  /\ disk # state
  /\ Len(articles) >= 1
  /\ Len(Xovers) = 2

\* A batch ends in this step: batchStart becomes batchEnd + 1.
BatchEnds ==
  /\ pc \in {"xover_list", "art_status", "art_body"}
  /\ batchStart' = batchEnd + 1

\* C14: at the end of a batch the bookmark becomes {batchEnd, now} exactly
\* when resume mode is on and batchEnd > first, first being the start after
\* the resume adjustment, and the file is then written with it unless the
\* write fails; at the end of any other batch, and in every step of a run
\* that does not end a batch, the bookmark and the file stay as they are.  So
\* in resume mode every batch after the first sets it, and the first sets it
\* exactly when it holds more than one number.
C14_BookmarkUpdate ==
  [][/\ BatchEnds =>
          /\ IF useLatest /\ batchEnd > first
             THEN state' = GroupState(batchEnd, now) /\ state' # state /\ disk' \in {disk, state'}
             ELSE state' = state /\ disk' = disk
          /\ (useLatest /\ Len(Xovers) >= 2) => state' = GroupState(batchEnd, now)
          /\ (useLatest /\ Len(Xovers) = 1) => (state' # state <=> batchEnd > batchStart)
     /\ (~BatchEnds /\ run' = run) => (state' = state /\ disk' = disk)]_vars

C14_Witness ==
  /\ pc = "xover_hdr"
  /\ ~broken
  /\ useLatest
  /\ maxBatchSize = 1
  /\ Len(Xovers) = 3
  /\ Len(ArticleCmds) = 2
  /\ first = 1
  /\ saved0 = NoState
  /\ state = GroupState(2, now)
  /\ disk = state

\* C15 as claimed: the record is mutated at the end of a batch of a
\* resume-mode run exactly when the batch's upper bound exceeds the batch's
\* own starting bound.
C15_MutatedIffPastBatchStart ==
  [][(BatchEnds /\ useLatest) => (state' # state <=> batchEnd > batchStart)]_vars

\* C15, amended: the record is mutated at the end of a batch exactly when
\* resume mode is on and the batch's upper bound exceeds first, the start of
\* the run's range after the resume adjustment, whatever the batch's own
\* start; within a run it is mutated at no other point, and the value written
\* is {batchEnd, now}.
C15_MutatedIffPastFirst ==
  [][/\ BatchEnds => (state' # state <=> (useLatest /\ batchEnd > first))
     /\ (run' = run /\ state' # state) => (BatchEnds /\ state' = GroupState(batchEnd, now))]_vars

C15_Witness ==
  /\ pc = "exited"
  /\ result = "ok"
  /\ useLatest
  /\ maxBatchSize = 1
  /\ Exists(saved0)
  /\ saved0[Group].LastArticle = 1
  /\ first = 2
  /\ last = 3
  /\ Len(Xovers) = 2
  /\ Xovers[2].lo = Xovers[2].hi
  /\ state = GroupState(3, now)

\* The kinds of the commands sent in this run, in order.
SentKinds == [i \in 1..Len(sent) |-> sent[i].cmd]

Sent(kind) == \E i \in 1..Len(sent) : sent[i].cmd = kind

\* C16: with -user, AUTHINFO USER is the first command; AUTHINFO PASS is sent
\* only after a response to AUTHINFO USER that begins with 381 has been read;
\* GROUP, XOVER and ARTICLE are sent only after that and a response to
\* AUTHINFO PASS that begins with 281; a read error or any other response at
\* either step ends the run in failure with nothing more sent.
C16_AuthOrdering ==
  username =>
    /\ Len(authRead) <= 2
    /\ Len(sent) >= 1 => sent[1] = AuthUserCmd
    /\ Sent("AUTHINFO PASS") =>
         /\ Len(authRead) >= 1
         /\ authRead[1] # ReadErr
         /\ SubSeq(authRead[1], 1, 3) = <<"3", "8", "1">>
         /\ SubSeq(SentKinds, 1, 2) = <<"AUTHINFO USER", "AUTHINFO PASS">>
    /\ (Sent("GROUP") \/ Sent("XOVER") \/ Sent("ARTICLE")) =>
         /\ Len(authRead) = 2
         /\ authRead[2] # ReadErr
         /\ SubSeq(authRead[1], 1, 3) = <<"3", "8", "1">>
         /\ SubSeq(authRead[2], 1, 3) = <<"2", "8", "1">>
         /\ SubSeq(SentKinds, 1, 3) = <<"AUTHINFO USER", "AUTHINFO PASS", "GROUP">>
    /\ (Len(authRead) >= 1 /\ (authRead[1] = ReadErr \/ SubSeq(authRead[1], 1, 3) # <<"3", "8", "1">>)) =>
         (pc = "exited" /\ result = "fatal" /\ sent = <<AuthUserCmd>>)
    /\ (Len(authRead) = 2 /\ (authRead[2] = ReadErr \/ SubSeq(authRead[2], 1, 3) # <<"2", "8", "1">>)) =>
         (pc = "exited" /\ result = "fatal" /\ sent = <<AuthUserCmd, AuthPassCmd>>)
    /\ (Len(authRead) = 1 /\ authRead[1] = PassRequired) => (pc = "auth_pass" /\ Sent("AUTHINFO PASS"))
    /\ authRead = <<PassRequired, AuthAccepted>> => Sent("GROUP")

C16_Witness ==
  /\ username
  /\ pc = "exited"
  /\ result = "fatal"
  /\ ~broken
  /\ authRead = <<PassRequired, AuthRejected>>
  /\ sent = <<AuthUserCmd, AuthPassCmd>>

\* The position in s of the last XOVER, 0 when there is none.
LastXover(s) ==
  LET ks == {k \in 1..Len(s) : s[k].cmd = "XOVER"} IN
  IF ks = {} THEN 0 ELSE CHOOSE k \in ks : \A j \in ks : j <= k

\* The command the run is reading the response of is the last one sent: GROUP
\* first, then for each batch XOVER followed by ARTICLE for the first idx
\* candidates of the batch, in listing order; QUIT after a success only.
InSequence ==
  /\ Len(sent) >= 1 => sent[1] = GroupCmd
  /\ pc = "group" => sent = <<GroupCmd>>
  /\ pc \in {"xover_hdr", "xover_list"} => sent[Len(sent)] = XoverCmd(batchStart, batchEnd)
  /\ pc \in {"art_status", "art_body"} =>
       LET k == LastXover(sent) IN
       /\ idx \in 1..Len(articleNumbers)
       /\ k > 0
       /\ sent[k] = XoverCmd(batchStart, batchEnd)
       /\ SubSeq(sent, k + 1, Len(sent)) = [i \in 1..idx |-> ArticleCmd(articleNumbers[i])]
  /\ Len(sent) >= 1 /\ sent[Len(sent)] = QuitCmd => (pc = "exited" /\ result = "ok")
  /\ Len(stdout) > 0 => stdout = articles

\* C17: one command is in flight at a time.  GROUP is the first command; a
\* command is sent only in the step that reads the end of the response to the
\* one before; XOVER for the next batch is sent only when ARTICLE has been
\* sent, and answered, for every candidate of the batch; ARTICLE is sent only
\* after the listing has been read to its end, for the candidates of the
\* batch's listing, once each and in listing order; an article is kept when
\* its ARTICLE exchange ends, after those kept before, and what is printed is
\* the articles kept.
C17_CommandSequencing ==
  [][/\ InSequence'
     /\ (run' = run /\ sent' # sent) =>
          /\ \E c \in {GroupCmd, QuitCmd, XoverCmd(batchStart', batchEnd')}
                    \cup {ArticleCmd(articleNumbers[i]) : i \in 1..Len(articleNumbers)} :
               sent' = Append(sent, c)
          /\ pc # "xover_hdr"
          /\ sent'[Len(sent')].cmd = "GROUP" => pc = "greeting"
          /\ sent'[Len(sent')].cmd = "XOVER" =>
               /\ pc \in {"group", "xover_list", "art_status", "art_body"}
               /\ pc = "xover_list" => articleNumbers = <<>>
               /\ pc \in {"art_status", "art_body"} => idx = Len(articleNumbers)
          /\ sent'[Len(sent')].cmd = "ARTICLE" =>
               /\ pc \in {"xover_list", "art_status", "art_body"}
               /\ articleNumbers' = articleNumbers
               /\ idx' = (IF pc = "xover_list" THEN 1 ELSE idx + 1)
               /\ sent'[Len(sent')] = ArticleCmd(articleNumbers[idx'])
               /\ Atoi(articleNumbers[idx']).val \in batchStart..batchEnd
          /\ sent'[Len(sent')].cmd = "QUIT" => pc \in {"group", "xover_list", "art_status", "art_body"}
     /\ (run' = run /\ articles' # articles) =>
          /\ pc = "art_body"
          /\ \E a \in {article \o <<DOT, CR, LF>>} :
               /\ articles' = Append(articles, a)
               /\ NumOfArticle(a) = articleNumbers[idx]]_vars

C17_Witness ==
  /\ pc = "exited"
  /\ result = "ok"
  /\ SentKinds = <<"GROUP", "XOVER", "ARTICLE", "ARTICLE", "XOVER", "ARTICLE", "QUIT">>
  /\ [i \in 1..Len(ArticleCmds) |-> ArticleCmds[i].num] = <<<<"1">>, <<"2">>, <<"3">>>>
  /\ [i \in 1..Len(stdout) |-> NumOfArticle(stdout[i])] = <<<<"1">>, <<"2">>, <<"3">>>>

\* The GROUP response read in this step carries a range with first > last.
EmptyGroupRead == run' = run /\ GroupParsed' /\ first0' > last'

\* C18 as claimed: when the GROUP response carries first > last, no XOVER and
\* no ARTICLE is sent, the bookmark is not modified, and the run ends with the
\* "no matching articles" failure.
C18_EmptyGroupFails ==
  [][EmptyGroupRead =>
       /\ pc' = "exited"
       /\ result' = "noresults"
       /\ Len(Xovers') = 0
       /\ Len(ArticleCmds') = 0
       /\ state' = state
       /\ disk' = disk]_vars

\* C18, amended: when the GROUP response carries first > last, no XOVER and no
\* ARTICLE is sent, the bookmark and the file are not modified and nothing is
\* printed; the run ends with the "no matching articles" failure, except in
\* resume mode with a saved last_article >= last, where it ends with the empty
\* success of the "no new articles" return.
C18_EmptyGroup ==
  [][EmptyGroupRead =>
       /\ pc' = "exited"
       /\ result' = (IF useLatest /\ Exists(saved0) /\ saved0[Group].LastArticle >= last'
                     THEN "ok" ELSE "noresults")
       /\ Len(Xovers') = 0
       /\ Len(ArticleCmds') = 0
       /\ Len(stdout') = 0
       /\ first' = first0'
       /\ state' = state
       /\ disk' = disk]_vars

C18_Witness ==
  /\ pc = "exited"
  /\ GroupParsed
  /\ first0 > last
  /\ useLatest
  /\ Exists(saved0)
  /\ saved0[Group].LastArticle < last
  /\ result = "noresults"
  /\ sent = <<GroupCmd>>
  /\ state = saved0

\* The file holds a record written in this run: last_fetch is this run's now
\* (every record found at the start is older).
FileWritten == Exists(disk) /\ disk[Group].LastFetch = now

\* C19 as claimed, in the case it is claimed for: a resume-mode run that
\* fetched an article and ends without printing any, in a fatal error of a
\* later batch, leaves the bookmark file as it found it, so that the numbers
\* of the articles it dropped are asked for again by the next run.
C19_NoOutputNoBookmark ==
  (pc = "exited" /\ useLatest /\ result \in {"fatal", "noresults"} /\ Len(stdout) = 0
     /\ Len(articles) >= 1)
    => ~FileWritten

\* ceil(n / b) for n >= 0 and b >= 1.
CeilDiv(n, b) == (n + b - 1) \div b

\* The loop of lines 168-227 advances: each XOVER starts past the one before,
\* and no more than ceil((last - first + 1) / maxBatchSize) are sent.
BatchLoopAdvances ==
  /\ \A i \in 2..Len(Xovers) : Xovers[i].lo > Xovers[i - 1].lo
  /\ \A i \in 1..Len(Xovers) : \A j \in 1..Len(Xovers) :
       i # j => <<Xovers[i].lo, Xovers[i].hi>> # <<Xovers[j].lo, Xovers[j].hi>>
  /\ GroupParsed => Len(Xovers) <= CeilDiv(last - first + 1, maxBatchSize)
  /\ pc \in {"xover_hdr", "xover_list", "art_status", "art_body"} =>
       (batchStart <= batchEnd /\ batchEnd <= last)

\* The steps one article takes at most: the status line, the body lines, the
\* terminator.
ArticleSteps == MaxBody + 2

\* The steps the batch at hand takes at most from here on.
BatchRank ==
  IF pc = "xover_hdr"
  THEN 1 + (batchEnd - batchStart + 2) + (batchEnd - batchStart + 1) * ArticleSteps
  ELSE IF pc = "xover_list"
  THEN (batchEnd - cursor + 2) + (Len(articleNumbers) + batchEnd - cursor + 1) * ArticleSteps
  ELSE IF pc = "art_status"
  THEN (Len(articleNumbers) - idx + 1) * ArticleSteps
  ELSE (Len(articleNumbers) - idx) * ArticleSteps + (MaxBody - nbody + 1)

\* A bound on the steps the run takes from here on: it counts the article
\* numbers of the range not yet covered by a batch, and the lines the server
\* still has to send for the batch at hand.
Rank ==
  IF pc = "exited" THEN 0
  ELSE IF pc \in {"xover_hdr", "xover_list", "art_status", "art_body"}
  THEN (last - batchEnd) * (ArticleSteps + 3) + BatchRank
  ELSE MaxArt * (ArticleSteps + 3) + (IF pc = "group" THEN 1 ELSE IF pc = "greeting" THEN 2 ELSE 3)

\* A run that has not ended is at one of the reads, each of which returns a
\* line or an error, and is a bounded number of steps from its end.
CanGoOn ==
  pc # "exited" =>
    /\ pc \in {"idle", "greeting", "group", "xover_hdr", "xover_list", "art_status", "art_body"}
    /\ pc \in {"art_status", "art_body"} => idx \in 1..Len(articleNumbers)
    /\ Incoming({}) # {}
    /\ Rank > 0

\* A run under SpecLive ends.
EventuallyExits == <>(pc = "exited" /\ result \in {"ok", "noresults", "fatal"})

\* C20: with a batch size of at least 1 and reads that return, every run ends,
\* in success or in failure: every step of a run takes it nearer to its end
\* (Rank is a natural number and falls with every step) and a run that has
\* not ended can take a step; batchStart grows with every turn of the batch
\* loop, no batch is asked for twice, and at most
\* ceil((last - first + 1) / maxBatchSize) XOVER commands are sent.
C20_Termination ==
  /\ [](BatchLoopAdvances /\ CanGoOn)
  /\ [][/\ (run' = run /\ batchStart' # batchStart /\ pc # "group") => batchStart' > batchStart
        /\ Rank' < Rank
        /\ Rank' >= 0]_vars

C20_Witness ==
  /\ pc = "exited"
  /\ result = "ok"
  /\ maxBatchSize = 2
  /\ first = 1
  /\ last = 3
  /\ Len(Xovers) = CeilDiv(last - first + 1, maxBatchSize)
  /\ Len(Xovers) = 2

====
